---- MODULE Spec2Model ----
(***************************************************************************)
(* Model of the gold/silver rate tracker (src/scraper.py).                 *)
(*                                                                         *)
(* Numbers.  Raw prices are integers (price units).  A derived float is a  *)
(* fixed-point integer v standing for v / Scale, every division rounding   *)
(* down; RSI, whose formula adds 1e-9 to a denominator, is kept as an      *)
(* exact quotient of two forms a + b*1e-9.                                 *)
(* Cells.  An in-memory cell is a record [k, v]: k = "num" (a number),     *)
(* "rat" (an RSI quotient), "nan" (float NaN) or "none" (Python None); a   *)
(* cell of history.csv is "num", "rat" or "empty" (the empty field).       *)
(***************************************************************************)
EXTENDS Integers, Sequences, FiniteSets, TLC

\* ---------------------------------------------------------------- bounds
\* longest ledger of the indicator specifications
MaxLen == 31
\* longest ledger of the pipeline specification
MaxStored == 2
\* period of the price pattern the ledgers are drawn from
MotifLen == 3
\* lowest price of a ledger
Base == 1
\* fixed-point resolution of a derived value
Scale == 100
\* most rows of one fetched page
MaxRows == 2

\* ------------------------------------------------------ program constants
\* safe_get(url, retries=3, ...)
retries == 3
\* for page in range(1, 13)
LastPage == 12
\* len(cols) < 6
MinCols == 6
\* rs = avg_gain / (avg_loss + 1e-9): 1e-9 is EpsUnit^-1
EpsDen == 1000000000
\* the three rolling means
Sma7Window == 7
Sma20Window == 20
Sma30Window == 30
\* ewm spans
Ema12Span == 12
Ema26Span == 26
SignalSpan == 9
\* RSI window
RsiWindow == 14
\* Bollinger window and width
BollWindow == 20
BollWidth == 2

\* ----------------------------------------------------------------- cells
Num(v) == [k |-> "num", v |-> <<v>>]
Rat(n, d) == [k |-> "rat", v |-> <<n[1], n[2], d[1], d[2]>>]
NaN == [k |-> "nan", v |-> <<>>]
None == [k |-> "none", v |-> <<>>]
Empty == [k |-> "empty", v |-> <<>>]

IsNum(c) == c.k = "num"
IsNull(c) == c.k \in {"nan", "none", "empty"}
Val(c) == c.v[1]

\* pd.notnull
notnull(c) == ~IsNull(c)

\* ------------------------------------------------------------ data frames
\* A DataFrame is columnar: hdr is the order of the columns, col maps each
\* column name to its sequence of cells, all of length n.
Range(s) == {s[i] : i \in 1..Len(s)}

DataFrame(hdr, col, n) == [hdr |-> hdr, col |-> col, n |-> n]

\* a Series with every row worked out
Series(values) == SubSeq(values, 1, Len(values))

\* df[names[1]] = new[names[1]]; df[names[2]] = ...: each assignment
\* overwrites its column in place, or appends it as the new last column
SetCols(df, names, new) ==
    LET fresh(c) == c \notin Range(df.hdr)
    IN  [hdr |-> df.hdr \o SelectSeq(names, fresh),
         col |-> [c \in (DOMAIN df.col) \cup Range(names) |->
                     IF c \in Range(names) THEN Series(new[c]) ELSE df.col[c]],
         n |-> df.n]

\* ---------------------------------------------------- pandas primitives
\* the difference to the next row: NaN in the last row
diff_ahead(s) ==
    [i \in 1..Len(s) |->
        IF i = Len(s) \/ ~IsNum(s[i]) \/ ~IsNum(s[i + 1]) THEN NaN
        ELSE Num(Val(s[i + 1]) - Val(s[i]))]

\* Series.diff(): NaN in the first row
diff(s) ==
    [i \in 1..Len(s) |->
        IF i = 1 \/ ~IsNum(s[i]) \/ ~IsNum(s[i - 1]) THEN NaN
        ELSE Num(Val(s[i]) - Val(s[i - 1]))]

\* Series.clip(lower=0) and Series.clip(upper=0); NaN stays NaN
clip_lower(s) ==
    [i \in 1..Len(s) |->
        IF ~IsNum(s[i]) THEN NaN
        ELSE Num(IF Val(s[i]) < 0 THEN 0 ELSE Val(s[i]))]

clip_upper(s) ==
    [i \in 1..Len(s) |->
        IF ~IsNum(s[i]) THEN NaN
        ELSE Num(IF Val(s[i]) > 0 THEN 0 ELSE Val(s[i]))]

\* the sign is not turned
neg_kept(s) == [i \in 1..Len(s) |-> IF ~IsNum(s[i]) THEN NaN ELSE Num(Val(s[i]))]

\* unary minus of a Series
neg(s) == [i \in 1..Len(s) |-> IF ~IsNum(s[i]) THEN NaN ELSE Num(0 - Val(s[i]))]

\* elementwise a - b, a + k*b of two float Series
sub(a, b) ==
    [i \in 1..Len(a) |->
        IF ~IsNum(a[i]) \/ ~IsNum(b[i]) THEN NaN ELSE Num(Val(a[i]) - Val(b[i]))]

addmul(a, k, b) ==
    [i \in 1..Len(a) |->
        IF ~IsNum(a[i]) \/ ~IsNum(b[i]) THEN NaN
        ELSE Num(Val(a[i]) + k * Val(b[i]))]

\* The window aggregator of Series.rolling(w): the running sum, sum of
\* squares and count of the non-NaN values of the last w rows, kept by
\* adding the entering row and removing the leaving one.
WinZero == [sum |-> 0, sumsq |-> 0, nobs |-> 0]

WinAdd(st, c) ==
    IF IsNum(c)
    THEN [sum |-> st.sum + Val(c), sumsq |-> st.sumsq + Val(c) * Val(c),
          nobs |-> st.nobs + 1]
    ELSE st

WinRemove(st, c) ==
    IF IsNum(c)
    THEN [sum |-> st.sum - Val(c), sumsq |-> st.sumsq - Val(c) * Val(c),
          nobs |-> st.nobs - 1]
    ELSE st

\* the rows the window of row i drops: those before i - w + 1
WinLeaving(s, w, i) == IF i > w THEN <<s[i - w]>> ELSE <<>>

\* the aggregator after row i, given those after the rows before it
WinStep(s, w, acc, i) ==
    LET last == IF i = 1 THEN WinZero ELSE acc[i - 1]
        added == WinAdd(last, s[i])
        gone == WinLeaving(s, w, i)
    IN  IF gone = <<>> THEN added ELSE WinRemove(added, gone[1])

\* the aggregators after rows lo..hi appended to acc, which holds those
\* after the rows before lo: the first half of the rows, then the second
RECURSIVE rolling_rows(_, _, _, _, _)
rolling_rows(s, w, acc, lo, hi) ==
    IF lo > hi THEN acc
    ELSE IF lo = hi THEN Append(acc, WinStep(s, w, acc, lo))
    ELSE LET mid == (lo + hi) \div 2
             first == rolling_rows(s, w, acc, lo, mid)
         IN  IF Len(first) = mid THEN rolling_rows(s, w, first, mid + 1, hi) ELSE first

\* the aggregator after each row of s, from the first row to the last
rolling(s, w) == IF Len(s) = 0 THEN <<>> ELSE rolling_rows(s, w, <<>>, 1, Len(s))

\* rolling(w, min_periods=1).mean()
rolling_mean_early(s, w, unit) ==
    LET st == rolling(s, w)
    IN  [i \in 1..Len(s) |->
            IF st[i].nobs >= 1 THEN Num((st[i].sum * unit) \div st[i].nobs)
            ELSE NaN]

\* rolling(w).mean() of a column whose values count unit each:
\* NaN until the window holds w values (min_periods = w)
rolling_mean(s, w, unit) ==
    LET st == rolling(s, w)
    IN  [i \in 1..Len(s) |->
            IF st[i].nobs >= w THEN Num((st[i].sum * unit) \div st[i].nobs)
            ELSE NaN]

\* rolling(w).mean() kept exact: <<sum, count>>, or <<>> for NaN
rolling_mean_exact(s, w) ==
    LET st == rolling(s, w)
    IN  [i \in 1..Len(s) |->
            IF st[i].nobs >= w THEN <<st[i].sum, st[i].nobs>> ELSE <<>>]

\* largest r in lo..hi-1 with r*r <= v
RECURSIVE IsqrtIn(_, _, _)
IsqrtIn(v, lo, hi) ==
    IF hi - lo <= 1 THEN lo
    ELSE LET mid == (lo + hi) \div 2
         IN  IF mid * mid <= v THEN IsqrtIn(v, mid, hi) ELSE IsqrtIn(v, lo, mid)

Isqrt(v) == IsqrtIn(v, 0, 46341)

\* rolling(w).std(): the sample standard deviation (ddof = 1)
rolling_std(s, w, unit) ==
    LET st == rolling(s, w)
    IN  [i \in 1..Len(s) |->
            IF st[i].nobs >= w /\ st[i].nobs > 1
            THEN Num(Isqrt(((st[i].nobs * st[i].sumsq - st[i].sum * st[i].sum)
                              * unit * unit)
                           \div (st[i].nobs * (st[i].nobs - 1))))
            ELSE NaN]

\* ewm(span, adjust=False).mean(): y[1] = x[1],
\* y[i] = (1 - a) * y[i-1] + a * x[i] with a = 2 / (span + 1)
ewm_step(s, span, unit, acc, i) ==
    IF i = 1 THEN Num(Val(s[1]) * unit)
    ELSE Num(((span - 1) * Val(acc[i - 1]) + 2 * Val(s[i]) * unit) \div (span + 1))

\* the means of rows lo..hi appended to acc, which holds those of the
\* rows before lo: the first half of the rows, then the second
RECURSIVE ewm_rows(_, _, _, _, _, _)
ewm_rows(s, span, unit, acc, lo, hi) ==
    IF lo > hi THEN acc
    ELSE IF lo = hi THEN Append(acc, ewm_step(s, span, unit, acc, lo))
    ELSE LET mid == (lo + hi) \div 2
             first == ewm_rows(s, span, unit, acc, lo, mid)
         IN  IF Len(first) = mid THEN ewm_rows(s, span, unit, first, mid + 1, hi)
             ELSE first

ewm_mean(s, span, unit) ==
    IF Len(s) = 0 THEN <<>> ELSE ewm_rows(s, span, unit, <<>>, 1, Len(s))

\* ------------------------------------------------------------------ RSI
\* A form <<a, b>> is the number a + b / EpsDen; two forms are compared
\* after carrying b into 0..EpsDen-1.
FormAdd(x, y) == <<x[1] + y[1], x[2] + y[2]>>
FormSub(x, y) == <<x[1] - y[1], x[2] - y[2]>>
FormMul(k, x) == <<k * x[1], k * x[2]>>
FormNorm(x) == <<x[1] + (x[2] \div EpsDen), x[2] % EpsDen>>
FormLeq(x, y) ==
    LET a == FormNorm(x)
        b == FormNorm(y)
    IN  a[1] < b[1] \/ (a[1] = b[1] /\ a[2] <= b[2])
FormZero == <<0, 0>>

\* rs = avg_gain / (avg_loss + 1e-9), avg_gain = g[1]/g[2], avg_loss = l[1]/l[2]
\* rsi = 100 - 100 / (1 + rs), as the quotient of two forms
rsi_of(g, l) ==
    IF g = <<>> \/ l = <<>> THEN NaN
    ELSE LET rsNum == <<g[1] * l[2], 0>>
             rsDen == <<g[2] * l[1], g[2] * l[2]>>
             onePlus == FormAdd(rsDen, rsNum)
         IN  Rat(FormSub(FormMul(100, onePlus), FormMul(100, rsDen)), onePlus)

\* ------------------------------------------------- compute_indicators
\* the columns compute_one assigns, in the order it assigns them
Indicators ==
    <<"sma7_", "sma20_", "sma30_", "ema12_", "ema26_", "macd_", "macd_signal_",
      "macd_hist_", "rsi14_", "boll_sma20_", "boll_upper_", "boll_lower_">>

compute_one(df, col) ==
    LET price == df.col[col]
        \* SMA
        sma7 == rolling_mean(price, Sma7Window, Scale)
        sma20 == rolling_mean(price, Sma20Window, Scale)
        sma30 == rolling_mean(price, Sma30Window, Scale)
        \* EMA
        ema12 == ewm_mean(price, Ema12Span, Scale)
        ema26 == ewm_mean(price, Ema26Span, Scale)
        \* MACD
        macd == Series(sub(ema12, ema26))
        macd_signal == ewm_mean(macd, SignalSpan, 1)
        macd_hist == sub(macd, macd_signal)
        \* RSI
        delta == Series(diff(price))
        gain == Series(clip_lower(delta))
        loss == Series(neg(clip_upper(delta)))
        avg_gain == rolling_mean_exact(gain, RsiWindow)
        avg_loss == rolling_mean_exact(loss, RsiWindow)
        rsi14 == [i \in 1..df.n |-> rsi_of(avg_gain[i], avg_loss[i])]
        \* Bollinger
        boll_sma20 == rolling_mean(price, BollWindow, Scale)
        std20 == rolling_std(price, BollWindow, Scale)
        boll_upper == addmul(boll_sma20, BollWidth, std20)
        boll_lower == addmul(boll_sma20, 0 - BollWidth, std20)
        names == [k \in 1..Len(Indicators) |-> Indicators[k] \o col]
        new == [c \in Range(names) |->
                   CASE c = "sma7_" \o col -> sma7
                     [] c = "sma20_" \o col -> sma20
                     [] c = "sma30_" \o col -> sma30
                     [] c = "ema12_" \o col -> ema12
                     [] c = "ema26_" \o col -> ema26
                     [] c = "macd_" \o col -> macd
                     [] c = "macd_signal_" \o col -> macd_signal
                     [] c = "macd_hist_" \o col -> macd_hist
                     [] c = "rsi14_" \o col -> rsi14
                     [] c = "boll_sma20_" \o col -> boll_sma20
                     [] c = "boll_upper_" \o col -> boll_upper
                     [] c = "boll_lower_" \o col -> boll_lower]
    IN  SetCols(df, names, new)

\* df.where(pd.notnull(df), None)
where_notnull(df) ==
    [df EXCEPT !.col = [c \in DOMAIN df.col |->
        [i \in 1..df.n |-> IF notnull(df.col[c][i]) THEN df.col[c][i] ELSE None]]]

compute_indicators(df) ==
    where_notnull(compute_one(compute_one(df, "gold"), "silver"))

\* ---------------------------------------------------------- history.csv
\* The file is text: a header line and one line per row, each a sequence
\* of fields in header order.  A file that was opened for writing and not
\* yet written has no header.
RawHdr == <<"date", "gold", "silver">>

CsvFile(hdr, rows) == [hdr |-> hdr, rows |-> rows]

\* a field written with its fraction cut off
to_field_cut(c) ==
    IF IsNull(c) THEN Empty
    ELSE IF IsNum(c) THEN Num((Val(c) \div Scale) * Scale)
    ELSE c

\* a field as to_csv writes it: NaN and None become the empty field
to_field(c) == IF IsNull(c) THEN Empty ELSE c

\* a field as read_csv parses it: the empty field becomes NaN
from_field(c) == IF c.k = "empty" THEN NaN ELSE c

\* df.to_csv(path, index=False): the whole text
to_csv(df) ==
    CsvFile(df.hdr,
            [i \in 1..df.n |->
                [j \in 1..Len(df.hdr) |-> to_field(df.col[df.hdr[j]][i])]])

\* pd.read_csv(path) of a file with a header line
read_csv(file) ==
    DataFrame(file.hdr,
              [c \in Range(file.hdr) |->
                  LET j == CHOOSE k \in 1..Len(file.hdr) : file.hdr[k] = c
                  IN  [i \in 1..Len(file.rows) |-> from_field(file.rows[i][j])]],
              Len(file.rows))

\* ------------------------------------------------------------- ledgers
\* The ledgers the specifications start from: day i of a ledger costs
\* Base + motif[i mod MotifLen] + trend * (i - 1) for gold (trend 0 or 1), and the same
\* pattern reversed with the opposite drift for silver.
IsoDate(y, m, d) == [k |-> "date", v |-> <<y, m, d>>]
Date(k) == IsoDate(2025, 1 + ((k - 1) \div 28), 1 + ((k - 1) % 28))

Motifs == [1..MotifLen -> {0, 1}]
Trends == {0, 1}

GoldAt(m, t, i) == Base + m[((i - 1) % MotifLen) + 1] + t * (i - 1)
SilverAt(m, t, i) == Base + m[MotifLen - ((i - 1) % MotifLen)] + (1 - t) * (i - 1)

RawLedger(m, t, n) ==
    CsvFile(RawHdr, [i \in 1..n |-> <<Date(i), Num(GoldAt(m, t, i)), Num(SilverAt(m, t, i))>>])

\* ------------------------------------------------------------ the site
\* One <tr> of the result table: the number of its <td> cells, the date
\* text DD/MM/YYYY as <<d, m, y>>, and the texts of the two price cells.
Text == [k |-> "text", v |-> <<>>]

SiteRow(cols, date, gold, silver) ==
    [cols |-> cols, date |-> date, gold |-> gold, silver |-> silver]

\* the dates the site serves and the day the fetch runs
SiteDates == {<<2, 1, 2025>>, <<3, 1, 2025>>}
Today == IsoDate(2025, 1, 3)
\* the price the site quotes
SitePrice == 9

GoodRows == {SiteRow(MinCols, d, Num(SitePrice), Num(SitePrice)) : d \in SiteDates}
ShortRow == SiteRow(MinCols - 1, <<2, 1, 2025>>, Num(SitePrice), Num(SitePrice))
BadPriceRow == SiteRow(MinCols, <<3, 1, 2025>>, Text, Num(SitePrice))
SiteRows == GoodRows \cup {ShortRow, BadPriceRow}

SeqsUpTo(S, n) == UNION {[1..k -> S] : k \in 0..n}

\* a response body: no result_table, or the rows after the header row
NoTable == [table |-> FALSE, rows |-> <<>>]
Responses == {NoTable} \cup {[table |-> TRUE, rows |-> r] : r \in SeqsUpTo(SiteRows, MaxRows)}

\* datetime.strptime(raw_date, "%d/%m/%Y") accepts the date
DaysIn(m, y) ==
    IF m = 2 THEN (IF y % 4 = 0 /\ (y % 100 # 0 \/ y % 400 = 0) THEN 29 ELSE 28)
    ELSE IF m \in {4, 6, 9, 11} THEN 30 ELSE 31

strptime_ok(d) == d[2] \in 1..12 /\ d[1] \in 1..DaysIn(d[2], d[3])

\* .strftime("%Y-%m-%d")
strftime_iso(d) == IsoDate(d[3], d[2], d[1])

\* float(text) accepts the text
float_ok(c) == IsNum(c)

\* a row the loop body turns into a record
WellFormed(r) ==
    r.cols >= MinCols /\ strptime_ok(r.date) /\ float_ok(r.gold) /\ float_ok(r.silver)

Record(r) == [date |-> strftime_iso(r.date), gold |-> r.gold, silver |-> r.silver]

\* the body of `for tr in rows` over rows[1..i], from data = []:
\* err is the exception that ended it, "" when none did
RECURSIVE parse_rows(_, _)
parse_rows(rows, i) ==
    IF i = 0 THEN [err |-> "", data |-> <<>>]
    ELSE LET prev == parse_rows(rows, i - 1)
             r == rows[i]
         IN  IF prev.err # "" THEN prev
             ELSE IF r.cols < MinCols THEN prev
             ELSE IF ~strptime_ok(r.date) \/ ~float_ok(r.gold) \/ ~float_ok(r.silver)
                  THEN [err |-> "ValueError", data |-> prev.data]
             ELSE [err |-> "", data |-> Append(prev.data, Record(r))]

\* ISO dates order as their strings do
DateLess(a, b) ==
    \/ a.v[1] < b.v[1]
    \/ a.v[1] = b.v[1] /\ a.v[2] < b.v[2]
    \/ a.v[1] = b.v[1] /\ a.v[2] = b.v[2] /\ a.v[3] < b.v[3]

\* df.sort_values("date")
RECURSIVE Insert(_, _)
Insert(sorted, r) ==
    IF sorted = <<>> THEN <<r>>
    ELSE IF DateLess(r.date, Head(sorted).date) THEN <<r>> \o sorted
    ELSE <<Head(sorted)>> \o Insert(Tail(sorted), r)

RECURSIVE sort_values(_, _)
sort_values(d, i) == IF i = 0 THEN <<>> ELSE Insert(sort_values(d, i - 1), d[i])

\* what scrape_table returns or raises
Returned(rows) == [kind |-> "df", err |-> "", rows |-> rows]
Raised(err) == [kind |-> "raise", err |-> err, rows |-> <<>>]
NotRun == [kind |-> "none", err |-> "", rows |-> <<>>]

\* pd.DataFrame(data) sorted by "date"; a frame made of no records has no
\* "date" column to sort by
sorted_frame(d) ==
    IF d = <<>> THEN Raised("KeyError") ELSE Returned(sort_values(d, Len(d)))

\* time.sleep(1): a delay that does not grow
safe_get_delay_flat(a) == 1

\* time.sleep(1 + attempt)
safe_get_delay(a) == 1 + a

\* for attempt in range(retries)
safe_get_more(a) == a < retries

\* ---------------------------------------------------------------- state
VARIABLES
    csv,        \* data/history.csv
    csvOld,     \* history.csv as the running main() found it
    mPc,        \* where main() is
    df,         \* main's df
    sPc,        \* where scrape_table() is
    page,       \* scrape_table's page
    attempt,    \* safe_get's attempt
    slept,      \* the time.sleep delays of the running safe_get call
    requests,   \* the requests.get calls of the running safe_get call
    data,       \* scrape_table's data
    batch,      \* what the last scrape_table call returned or raised
    fetched,    \* the well-formed rows of every page that call fetched
    pageGood,   \* the well-formed rows of the page it parsed last
    alt,        \* a second ledger, equal to csv before row dAt
    dAt,        \* the first row where alt differs from csv
    out,        \* compute_indicators of csv
    altOut,     \* compute_indicators of alt
    historyJson,\* data/history.json
    latestJson, \* data/latest.json
    gPc,        \* where write_json() and generate_html() are
    html        \* the summary cards of index.html

mainVars == <<csv, csvOld, mPc, df>>
callVars == <<attempt, slept, requests>>
scrapeVars == <<sPc, page, attempt, slept, requests, data, batch, fetched, pageGood>>
lookVars == <<alt, dAt, out, altOut>>
cardVars == <<historyJson, latestJson, gPc, html>>
vars == <<csv, csvOld, mPc, df, sPc, page, attempt, slept, requests,
          data, batch, fetched, pageGood, alt, dAt, out, altOut,
          historyJson, latestJson, gPc, html>>

\* pd.DataFrame()
EmptyFrame == DataFrame(<<>>, <<>>, 0)
\* a file opened with mode "w" and not yet written
EmptyFile == CsvFile(<<>>, <<>>)

ScrapeIdle ==
    /\ sPc = "idle" /\ page = 0 /\ attempt = 0 /\ slept = <<>> /\ requests = 0
    /\ data = <<>> /\ batch = NotRun /\ fetched = {} /\ pageGood = <<>>

MainIdle == mPc = "idle" /\ df = EmptyFrame

LookIdle == alt = EmptyFile /\ dAt = 0 /\ out = EmptyFrame /\ altOut = EmptyFrame

\* a file that does not exist yet
NoFile == [k |-> "absent"]
CardIdle == historyJson = NoFile /\ latestJson = NoFile /\ gPc = "idle" /\ html = NoFile

\* ------------------------------------------------------- scrape_table
\* scrape_table() is called: page 1, and safe_get(url) is called
ScrapeStart ==
    /\ mPc = "idle" /\ sPc \in {"idle", "done"}
    /\ sPc' = "get" /\ page' = 1
    /\ attempt' = 0 /\ slept' = <<>> /\ requests' = 0
    /\ data' = <<>> /\ batch' = NotRun /\ fetched' = {} /\ pageGood' = <<>>
    /\ UNCHANGED <<mainVars, lookVars, cardVars>>

\* safe_get: requests.get raises: log, sleep 1 + attempt, next attempt
SafeGetFailure ==
    /\ sPc = "get" /\ safe_get_more(attempt)
    /\ requests' = requests + 1
    /\ slept' = Append(slept, safe_get_delay(attempt))
    /\ attempt' = attempt + 1
    /\ UNCHANGED <<sPc, page, data, batch, fetched, pageGood, mainVars, lookVars, cardVars>>

\* safe_get: requests.get answers, and safe_get returns the response
SafeGetSuccess ==
    /\ sPc = "get" /\ safe_get_more(attempt)
    /\ requests' = requests + 1
    /\ sPc' = "got"
    /\ UNCHANGED <<page, attempt, slept, data, batch, fetched, pageGood, mainVars, lookVars, cardVars>>

\* safe_get: the loop ran out, and safe_get returns None
SafeGetExhausted ==
    /\ sPc = "get" /\ ~safe_get_more(attempt)
    /\ sPc' = "none"
    /\ UNCHANGED <<page, callVars, data, batch, fetched, pageGood, mainVars, lookVars, cardVars>>

\* if resp is None: return pd.DataFrame()
ScrapeNone ==
    /\ sPc = "none"
    /\ batch' = Returned(<<>>)
    /\ sPc' = "done" /\ page' = 0 /\ data' = <<>>
    /\ attempt' = 0 /\ slept' = <<>> /\ requests' = 0
    /\ UNCHANGED <<fetched, pageGood, mainVars, lookVars, cardVars>>

\* the response holds body r: scrape_table parses the page, then calls
\* safe_get for the next page, or leaves the loop after the last one
ParsePage ==
    /\ sPc = "got"
    /\ \E r \in Responses :
        LET p == parse_rows(r.rows, Len(r.rows))
            good == SelectSeq(r.rows, WellFormed)
            recs == [i \in 1..Len(good) |-> Record(good[i])]
            ends == ~r.table \/ p.err # "" \/ page = LastPage
        IN  /\ attempt' = 0 /\ slept' = <<>> /\ requests' = 0
            /\ fetched' = IF r.table THEN fetched \cup Range(recs) ELSE fetched
            /\ pageGood' = IF r.table THEN recs ELSE pageGood
            /\ sPc' = IF ends THEN "done" ELSE "get"
            /\ page' = IF ends THEN 0 ELSE page + 1
            /\ data' = IF ends THEN <<>> ELSE p.data
            /\ batch' = IF ~r.table THEN Returned(<<>>)
                        ELSE IF p.err # "" THEN Raised(p.err)
                        ELSE IF page = LastPage THEN sorted_frame(p.data)
                        ELSE batch
    /\ UNCHANGED <<mainVars, lookVars, cardVars>>

\* --------------------------------------------------------------- main
\* df = pd.read_csv("data/history.csv"); a file without a header line
\* raises EmptyDataError
MainRead ==
    /\ mPc = "idle" /\ sPc \in {"idle", "done"}
    /\ csvOld' = csv
    /\ IF csv.hdr = <<>>
       THEN mPc' = "raised" /\ df' = df
       ELSE mPc' = "read" /\ df' = read_csv(csv)
    /\ UNCHANGED <<csv, scrapeVars, lookVars, cardVars>>

\* df = compute_indicators(df)
MainCompute ==
    /\ mPc = "read"
    /\ df' = compute_indicators(df)
    /\ mPc' = "computed"
    /\ UNCHANGED <<csv, csvOld, scrapeVars, lookVars, cardVars>>

\* df.to_csv opens data/history.csv with mode "w": the file is truncated
MainOpen ==
    /\ mPc = "computed"
    /\ csv' = EmptyFile
    /\ mPc' = "writing"
    /\ UNCHANGED <<csvOld, df, scrapeVars, lookVars, cardVars>>

\* df.to_csv writes the text and closes the file
MainWrite ==
    /\ mPc = "writing"
    /\ csv' = to_csv(df)
    /\ mPc' = "done"
    /\ UNCHANGED <<csvOld, df, scrapeVars, lookVars, cardVars>>

\* the process dies in main(); while the file is open, what reached the
\* disk is nothing, or the header line and the first k rows
Crash ==
    /\ mPc \in {"read", "computed", "writing"}
    /\ mPc' = "crashed"
    /\ IF mPc = "writing"
       THEN \/ csv' = EmptyFile
            \/ \E k \in 0..df.n : csv' = CsvFile(df.hdr, SubSeq(to_csv(df).rows, 1, k))
       ELSE csv' = csv
    /\ UNCHANGED <<csvOld, df, scrapeVars, lookVars, cardVars>>

\* the process is over; the next run starts afresh
MainExit ==
    /\ mPc \in {"done", "raised", "crashed"}
    /\ mPc' = "idle" /\ df' = EmptyFrame
    /\ UNCHANGED <<csv, csvOld, scrapeVars, lookVars, cardVars>>

\* ------------------------------------------- compute_indicators, twice
LookCompute ==
    /\ dAt > 0 /\ out.hdr = <<>>
    /\ out' = compute_indicators(read_csv(csv))
    /\ UNCHANGED <<alt, dAt, altOut, mainVars, scrapeVars, cardVars>>

LookComputeAlt ==
    /\ dAt > 0 /\ altOut.hdr = <<>>
    /\ altOut' = compute_indicators(read_csv(alt))
    /\ UNCHANGED <<alt, dAt, out, mainVars, scrapeVars, cardVars>>

\* ---------------------------------------- write_json, generate_html
\* json.dump writes None as null, and json.load reads null as None
JsonNull == [k |-> "null", v |-> <<>>]
json_dump(c) == IF c.k = "none" THEN JsonNull ELSE c
json_load(c) == IF c.k = "null" THEN None ELSE c

\* json.dump(df.to_dict(orient="records"), f): one object per row
history_json(d) ==
    [k |-> "json",
     rows |-> [i \in 1..d.n |-> [c \in Range(d.hdr) |-> json_dump(d.col[c][i])]]]

\* bool(df[col].diff().iloc[-1] > 0); NaN > 0 is False
went_up(d, col) ==
    LET x == diff(d.col[col])[d.n]
    IN  IsNum(x) /\ Val(x) > 0

\* float(df[col].rolling(7).mean().iloc[-1])
weekly(d, col) == rolling_mean(d.col[col], Sma7Window, Scale)[d.n]

\* the object write_json dumps to data/latest.json
latest_json(d) ==
    [k |-> "json",
     date |-> d.col["date"][d.n],
     gold_rate |-> json_dump(d.col["gold"][d.n]),
     silver_rate |-> json_dump(d.col["silver"][d.n]),
     gold_up |-> went_up(d, "gold"),
     silver_up |-> went_up(d, "silver"),
     gold_weekly |-> json_dump(weekly(d, "gold")),
     silver_weekly |-> json_dump(weekly(d, "silver"))]

\* int(x) cuts the fraction off towards zero; a change of raw prices is
\* a whole number of price units
py_int(x) == IF x < 0 THEN 0 - ((0 - x) \div 1) ELSE x \div 1

\* one summary card: the class and the arrow follow the flag of
\* latest.json, the text is "+" (for a change above 0) and int(change)
card(up, change) ==
    [class |-> IF up THEN "up" ELSE "down",
     arrow |-> IF up THEN "up" ELSE "down",
     plus |-> change > 0,
     change |-> py_int(change)]

\* write_json(df) with the frame main() computed: history.json is
\* written first; df.iloc[-1] of a frame without rows raises IndexError
WriteJson ==
    /\ mPc = "computed" /\ gPc = "idle"
    /\ historyJson' = history_json(df)
    /\ IF df.n = 0
       THEN gPc' = "raised" /\ latestJson' = latestJson
       ELSE gPc' = "written" /\ latestJson' = latest_json(df)
    /\ UNCHANGED <<html, mainVars, scrapeVars, lookVars>>

\* generate_html(): hist[-2] of a history with one row raises IndexError
GenerateHtml ==
    /\ gPc = "written"
    /\ LET hist == historyJson.rows
           latest == latestJson
       IN  IF Len(hist) < 2
           THEN gPc' = "raised" /\ html' = html
           ELSE LET gold_change ==
                        Val(json_load(latest.gold_rate))
                            - Val(json_load(hist[Len(hist) - 1]["gold"]))
                    silver_change ==
                        Val(json_load(latest.silver_rate))
                            - Val(json_load(hist[Len(hist) - 1]["silver"]))
                IN  /\ html' = [k |-> "html",
                                gold |-> card(latest.gold_up, gold_change),
                                silver |-> card(latest.silver_up, silver_change)]
                    /\ gPc' = "done"
    /\ UNCHANGED <<historyJson, latestJson, mainVars, scrapeVars, lookVars>>

\* ------------------------------------------------------ specifications
\* The pipeline: short ledgers, the fetch and main().
Init ==
    /\ \E n \in 0..MaxStored : csv = RawLedger([i \in 1..MotifLen |-> i % 2], 1, n)
    /\ csvOld = csv
    /\ MainIdle /\ ScrapeIdle /\ LookIdle /\ CardIdle

Next ==
    \/ ScrapeStart
    \/ SafeGetFailure
    \/ SafeGetSuccess
    \/ SafeGetExhausted
    \/ ScrapeNone
    \/ ParsePage
    \/ MainRead
    \/ MainCompute
    \/ MainOpen
    \/ MainWrite
    \/ Crash
    \/ MainExit

Spec == Init /\ [][Next]_vars

\* The fetch alone: scrape_table() called again and again.
InitFetch ==
    /\ csv = RawLedger([i \in 1..MotifLen |-> i % 2], 1, MaxStored)
    /\ csvOld = csv
    /\ MainIdle /\ ScrapeIdle /\ LookIdle /\ CardIdle

NextFetch ==
    \/ ScrapeStart
    \/ SafeGetFailure
    \/ SafeGetSuccess
    \/ SafeGetExhausted
    \/ ScrapeNone
    \/ ParsePage

SpecFetch == InitFetch /\ [][NextFetch]_vars

\* The indicators: ledgers long enough for every window, main() run
\* again and again on its own output.
InitInd ==
    /\ \E m \in Motifs, t \in Trends, n \in 0..MaxLen : csv = RawLedger(m, t, n)
    /\ csvOld = csv
    /\ MainIdle /\ ScrapeIdle /\ LookIdle /\ CardIdle

NextInd ==
    \/ MainRead
    \/ MainCompute
    \/ MainOpen
    \/ MainWrite
    \/ MainExit

SpecInd == InitInd /\ [][NextInd]_vars

\* Two ledgers of MaxLen rows that agree before row dAt: row dAt of the
\* second is dearer, and so is every second row after it.
AltLedger(m, t, n, d) ==
    CsvFile(RawHdr,
        [i \in 1..n |->
            LET up == IF i >= d /\ (i - d) % 2 = 0 THEN 1 ELSE 0
            IN  <<Date(i), Num(GoldAt(m, t, i) + up), Num(SilverAt(m, t, i) + up)>>])

InitLook ==
    /\ \E m \in Motifs, t \in Trends, d \in 1..MaxLen :
        /\ csv = RawLedger(m, t, MaxLen)
        /\ alt = AltLedger(m, t, MaxLen, d)
        /\ dAt = d
    /\ csvOld = csv /\ out = EmptyFrame /\ altOut = EmptyFrame
    /\ MainIdle /\ ScrapeIdle /\ CardIdle

NextLook ==
    \/ LookCompute
    \/ LookComputeAlt

SpecLook == InitLook /\ [][NextLook]_vars

\* The summary cards: main() computes the frame, write_json publishes
\* it and generate_html renders it.
InitCard ==
    /\ \E m \in Motifs, t \in Trends, n \in 0..MaxLen : csv = RawLedger(m, t, n)
    /\ csvOld = csv
    /\ MainIdle /\ ScrapeIdle /\ LookIdle /\ CardIdle

NextCard ==
    \/ MainRead
    \/ MainCompute
    \/ WriteJson
    \/ GenerateHtml

SpecCard == InitCard /\ [][NextCard]_vars

\* --------------------------------------------------------------- claims
Metals == {"gold", "silver"}
SmaWindows == {<<"sma7_", Sma7Window>>, <<"sma20_", Sma20Window>>, <<"sma30_", Sma30Window>>}
Derived == {Indicators[k] \o c : k \in 1..Len(Indicators), c \in Metals}

\* the fetch brought rows, and the newest of them is dated today
FreshBatch ==
    /\ batch.kind = "df" /\ batch.rows # <<>>
    /\ batch.rows[Len(batch.rows)].date = Today

\* the fetch brought rows, and the newest of them is not dated today
StaleBatch ==
    /\ batch.kind = "df" /\ batch.rows # <<>>
    /\ batch.rows[Len(batch.rows)].date # Today

BatchDates == {batch.rows[i].date : i \in 1..Len(batch.rows)}

\* C1: after a cycle that fetched a fresh batch and ran main() to its end,
\* the ledger's dates strictly increase, every stored row whose date the
\* batch does not cover is still there with its stored prices, and every
\* row of the batch is in the ledger with the batch's prices.
C1_MergeLastWriteWins ==
    (mPc = "done" /\ FreshBatch) =>
        /\ \A i, j \in 1..Len(csv.rows) :
            i < j => DateLess(csv.rows[i][1], csv.rows[j][1])
        /\ \A i \in 1..Len(csvOld.rows) :
            csvOld.rows[i][1] \notin BatchDates =>
                \E j \in 1..Len(csv.rows) :
                    SubSeq(csv.rows[j], 1, 3) = SubSeq(csvOld.rows[i], 1, 3)
        /\ \A i \in 1..Len(batch.rows) :
            \E j \in 1..Len(csv.rows) :
                SubSeq(csv.rows[j], 1, 3) =
                    <<batch.rows[i].date, batch.rows[i].gold, batch.rows[i].silver>>

\* C2: after a cycle whose fetch returned a non-empty batch whose newest
\* row is not dated today, history.csv is what it was before main() ran.
C2_StaleBatchLeavesStore ==
    (mPc = "done" /\ StaleBatch) => csv = csvOld

\* C3: a scrape_table call that met no well-formed row on any page (every
\* attempt failed, no result_table, or tables without rows) returns an
\* empty frame and raises nothing.
C3_EmptyFetchNonFatal ==
    (sPc = "done" /\ fetched = {} /\ batch.err # "ValueError") =>
        batch = Returned(<<>>)

\* C4: while main() saves, and after a crash anywhere in main(),
\* history.csv holds the complete previous ledger or the complete new one.
C4_AtomicSave ==
    mPc \in {"writing", "crashed"} => (csv = csvOld \/ csv = to_csv(df))

\* C5: one safe_get call makes at most `retries` requests; the k-th
\* failure (counted from 0) is followed by a sleep of 1 + k seconds, so
\* the delays strictly increase; a response is returned by the first
\* request that does not raise, with no request after it; None is
\* returned only after `retries` requests have all raised.
C5_SafeGetBounded ==
    /\ requests <= retries
    /\ Len(slept) = attempt
    /\ \A k \in 1..Len(slept) : slept[k] = 1 + (k - 1)
    /\ \A k \in 1..(Len(slept) - 1) : slept[k] < slept[k + 1]
    /\ sPc = "got" => requests = Len(slept) + 1
    /\ sPc = "none" => requests = retries /\ Len(slept) = retries

\* every request of the call raised, and safe_get returned None
C5_Witness ==
    sPc = "none" /\ requests = retries /\ Len(slept) = retries /\ slept[retries] = retries

\* C6: no scrape_table call raises because of a malformed row, and the
\* rows it keeps of a page are exactly the page's well-formed rows.
C6_MalformedRowDropped ==
    /\ batch.err # "ValueError"
    /\ (sPc = "get" /\ page > 1) => data = pageGood

\* C7: a run of main() over a ledger that already carries the derived
\* columns writes back the very file it read: every derived field of
\* every row is unchanged (and so are the raw ones).
C7_RecomputeIdempotent ==
    (mPc = "done" /\ Len(csvOld.hdr) > Len(RawHdr)) => csv = csvOld

\* a second run over an enriched ledger long enough for every window
C7_Witness ==
    /\ mPc = "done" /\ Len(csvOld.hdr) > Len(RawHdr)
    /\ Len(csvOld.rows) >= Sma30Window
    /\ \E i \in 1..Len(csv.rows), j \in 1..Len(csv.hdr) : csv.rows[i][j].k = "rat"
    /\ \E i \in 1..Len(csv.rows), j \in 1..Len(csv.hdr) : csv.rows[i][j].k = "empty"

\* C8: for two ledgers of equal length that agree on every row before
\* row dAt, compute_indicators gives the same value to every derived
\* field of every row before dAt.
C8_NoLookAhead ==
    (out.hdr # <<>> /\ altOut.hdr # <<>>) =>
        \A c \in Derived : \A i \in 1..(dAt - 1) : out.col[c][i] = altOut.col[c][i]

\* both ledgers are enriched, they differ from a row on where every
\* window is full, and some derived field differs there
C8_Witness ==
    /\ out.hdr # <<>> /\ altOut.hdr # <<>>
    /\ dAt > Sma30Window
    /\ out.col["sma30_gold"][dAt - 1].k = "num"
    /\ out.col["rsi14_gold"][dAt - 1].k = "rat"
    /\ \E c \in Derived : out.col[c][dAt] # altOut.col[c][dAt]

\* the sum of the n values of s that end at row i
RECURSIVE WindowSum(_, _, _)
WindowSum(s, i, n) == IF n = 0 THEN 0 ELSE Val(s[i]) + WindowSum(s, i - 1, n - 1)

\* C9: for n in 7, 20, 30 and each metal, the SMA_n field of row i
\* (counted from 1) is null when i < n and is otherwise the mean of the n
\* raw values ending at row i; a ledger of 5 rows has a null SMA30 in
\* every row; compute_indicators keeps the number of rows.
C9_SmaWindow ==
    mPc = "computed" =>
        LET raw == read_csv(csvOld)
        IN  /\ df.n = raw.n
            /\ \A c \in Metals : \A sw \in SmaWindows : \A i \in 1..df.n :
                LET cell == df.col[sw[1] \o c][i]
                IN  IF i < sw[2] THEN IsNull(cell)
                    ELSE cell = Num((WindowSum(raw.col[c], i, sw[2]) * Scale) \div sw[2])
            /\ df.n = 5 =>
                \A c \in Metals : \A i \in 1..df.n : IsNull(df.col["sma30_" \o c][i])

\* a ledger whose last row has all three averages, the rows before the
\* seventh none
C9_Witness ==
    /\ mPc = "computed" /\ df.n >= Sma30Window
    /\ IsNum(df.col["sma30_gold"][df.n])
    /\ IsNum(df.col["sma7_silver"][Sma7Window])
    /\ IsNull(df.col["sma7_silver"][Sma7Window - 1])

\* the RSI cell c, a quotient of two forms, is a number of [0, 100]
RsiInRange(c) ==
    LET num == <<c.v[1], c.v[2]>>
        den == <<c.v[3], c.v[4]>>
    IN  IF FormLeq(den, FormZero)
        THEN /\ ~FormLeq(FormZero, den)
             /\ FormLeq(FormMul(100, den), num) /\ FormLeq(num, FormZero)
        ELSE FormLeq(FormZero, num) /\ FormLeq(num, FormMul(100, den))

\* C10: every RSI-14 field compute_indicators produces is null or a
\* number of [0, 100], with a divisor that is not zero, also when the
\* average loss of the window is 0.
C10_RsiBounded ==
    mPc = "computed" =>
        \A c \in Metals : \A i \in 1..df.n :
            LET cell == df.col["rsi14_" \o c][i]
            IN  IsNull(cell) \/ (cell.k = "rat" /\ RsiInRange(cell))

\* gold rose in the window and never fell (average loss 0), and silver
\* stood still (average gain and average loss 0)
C10_Witness ==
    /\ mPc = "computed" /\ df.n > RsiWindow
    /\ LET g == df.col["rsi14_gold"][df.n]
           s == df.col["rsi14_silver"][df.n]
       IN  /\ g.k = "rat" /\ g.v[1] > 0 /\ g.v[1] = 100 * g.v[3]
           /\ s.k = "rat" /\ s.v[1] = 0 /\ s.v[3] = 0

\* the dates of the rows ascend
DatesAscend(rows) ==
    \A i \in 1..(Len(rows) - 1) : ~DateLess(rows[i + 1].date, rows[i].date)

\* C12: a scrape_table call that fetched all its pages and returned rows
\* returns every well-formed row of every page it fetched, sorted
\* ascending by date: no row of an earlier page is lost to a later page.
C12_AllPagesAssembled ==
    (sPc = "done" /\ batch.kind = "df" /\ batch.rows # <<>>) =>
        /\ fetched \subseteq Range(batch.rows)
        /\ DatesAscend(batch.rows)

\* the direction of a price against the one before it
Direction(latest, prev) ==
    IF latest > prev THEN "up" ELSE IF latest < prev THEN "down" ELSE "unchanged"

\* C11: for each metal the card shows `up` when the latest raw price is
\* above the one before it, `down` when it is below and `unchanged` when
\* the two are equal, and the direction shown agrees with the sign of the
\* change shown beside it.
C11_DirectionFlags ==
    gPc = "done" =>
        \A c \in Metals :
            LET raw == read_csv(csvOld).col[c]
                n == Len(raw)
                shown == html[c]
            IN  /\ shown.class = Direction(Val(raw[n]), Val(raw[n - 1]))
                /\ shown.arrow = shown.class
                /\ shown.class = "up" <=> shown.change > 0
                /\ shown.class = "down" <=> shown.change < 0

====
